---- MODULE Spec2Model ----
(***************************************************************************)
(* Legally Easy: the chat page (src/app/page.tsx), the summarizer page and *)
(* the legal-chat flow (src/ai/flows/legal-chat-flow.ts) as one state      *)
(* machine.                                                                *)
(*                                                                         *)
(* Text is a sequence of tokens (a query is a sequence of characters, a    *)
(* fixed sentence is one token), so that trimming, prefixes and            *)
(* concatenation are computed.  A nullable value is a sequence of length   *)
(* 0 (null / undefined) or 1 (the value).                                  *)
(***************************************************************************)
EXTENDS Integers, Sequences, FiniteSets, Bags, TLC

\* ---------------------------------------------------------------- bounds
MaxTurns == 2
MaxReaders == 1
MaxInFlight == 2
MaxInvocations == 2

\* ------------------------------------------------------------ state
VARIABLES
    variant,            \* which revision of page.tsx is mounted, or "server"
    \* chat page
    chatMessages, currentUserQuery, isChatPending, chatError,
    selectedFile, documentDataUri,
    readers,            \* files whose FileReader (chat page) is still reading
    docSent,            \* the stored documentDataUri was already passed to a call
    \* summarizer page
    file, fileName, summary, isPending, error,
    sreaders,           \* files whose FileReader (summarizer) is still reading
    scalls,             \* summarizeDocument calls in flight
    \* server
    flows               \* invocations of legalChat in flight

\* ------------------------------------------------------ nullable values
None == <<>>
Some(v) == <<v>>

\* ----------------------------------------------------------------- text
WhiteSpace == {" ", "\t", "\n"}

RECURSIVE TrimStart(_)
TrimStart(s) ==
    IF s # <<>> /\ Head(s) \in WhiteSpace THEN TrimStart(Tail(s)) ELSE s

RECURSIVE TrimEnd(_)
TrimEnd(s) ==
    IF s # <<>> /\ s[Len(s)] \in WhiteSpace
    THEN TrimEnd(SubSeq(s, 1, Len(s) - 1))
    ELSE s

\* String.prototype.trim
Trim(s) == TrimEnd(TrimStart(s))

StartsWith(s, p) == Len(p) <= Len(s) /\ SubSeq(s, 1, Len(p)) = p

Contains(s, tok) == \E i \in DOMAIN s : s[i] = tok

\* the texts the user types into the chat input: empty, whitespace only,
\* padded on the left, padded on the right
Queries == { <<>>, <<" ">>, <<" ", "a">>, <<"b", "\t">> }

\* ---------------------------------------------------------------- files
MAX_FILE_SIZE_MB == 5
MAX_FILE_SIZE_BYTES == MAX_FILE_SIZE_MB * 1024 * 1024

FileA == [name |-> <<"a.pdf">>, type |-> "application/pdf", size |-> 1024, content |-> "A"]
FileB == [name |-> <<"b.txt">>, type |-> "text/plain", size |-> MAX_FILE_SIZE_BYTES, content |-> "B"]
FileC == [name |-> <<"c.pdf">>, type |-> "application/pdf", size |-> MAX_FILE_SIZE_BYTES + 1, content |-> "C"]
Files == {FileA, FileB, FileC}

\* FileReader.readAsDataURL: data:<mimetype>;base64,<payload>
DataUrl(f) == <<"data:", f.type, ";base64,", f.content>>

\* the format the input schema describes for documentDataUri
IsDataUri(u) ==
    /\ Len(u) = 4
    /\ u[1] = "data:"
    /\ u[2] # ""
    /\ u[3] = ";base64,"
    /\ u[4] # ""

\* --------------------------------------------------- legal-chat flow
REFUSAL == "This query does not appear to be related to legal matters. As LegallyEasy AI, I can only assist with legal questions."
DISCLAIMER == "As LegallyEasy AI, I can provide information, but this is not legal advice. For specific legal issues, please consult a qualified legal professional."

\* LegalChatInputSchema: query is a required string, documentDataUri and
\* documentName are optional strings; no format is imposed on any of them.
InputSchemaOk(input) == input.query # None

\* LegalChatOutputSchema: an object with a string field `response`
OutputSchemaOk(output) == output # None /\ output[1].response # None

\* variant: {{#if v}} taken as a test for presence
HbsTruthyIfDefined(v) == v # None

\* handlebars {{#if v}}: undefined and the empty string are falsy
HbsTruthy(v) == v # None /\ v[1] # <<>>

\* handlebars {{v}}: undefined renders as the empty string
HbsValue(v) == IF v = None THEN <<>> ELSE v[1]

\* the rendered legalChatPrompt template
RenderPrompt(input) ==
    <<"You are LegallyEasy AI, a specialized legal information assistant.",
      "If the user's query is clearly not related to legal matters, your entire response must be exactly this:",
      REFUSAL,
      "IMPORTANT: If the query is legal, always begin your response by stating:",
      DISCLAIMER>>
    \o (IF HbsTruthy(input.documentDataUri)
        THEN <<"The user has provided the following document named '">>
             \o HbsValue(input.documentName)
             \o <<"' for reference.", "Document Content:", "{{media url=">>
             \o HbsValue(input.documentDataUri)
             \o <<"}}">>
        ELSE <<>>)
    \o <<"Please address the user's legal question:">>
    \o HbsValue(input.query)

ProviderErrors == {<<"provider unavailable">>}
ProviderTexts ==
    { <<>>,
      <<REFUSAL>>,
      <<DISCLAIMER, "answer">>,
      <<"answer">> }

\* what the LLM provider can send back for one call
ProviderReplies ==
    {[type |-> "error", cause |-> c, output |-> None] : c \in ProviderErrors}
    \cup {[type |-> "output", cause |-> <<>>, output |-> None]}
    \cup {[type |-> "output", cause |-> <<>>, output |-> Some([response |-> None])]}
    \cup {[type |-> "output", cause |-> <<>>, output |-> Some([response |-> Some(t)])]
            : t \in ProviderTexts}

NoReply == [type |-> "none", cause |-> <<>>, output |-> None]
SchemaError == <<"Schema validation failed">>

\* a fresh invocation of legalChat(input)
NewFlow(caller, input, reused) ==
    [caller |-> caller, input |-> input, reused |-> reused, pc |-> "invoked",
     prompt |-> <<>>, llmCalls |-> 0, reply |-> NoReply,
     result |-> None, error |-> None]

Failed(f, stage, cause) ==
    [f EXCEPT !.pc = "failed", !.error = Some([stage |-> stage, cause |-> cause])]

\* defineFlow validates the input against inputSchema before the body runs
ValidateInput(f) ==
    IF InputSchemaOk(f.input)
    THEN [f EXCEPT !.pc = "validated"]
    ELSE Failed(f, "input", SchemaError)

\* variant: the provider is called before the prompt has been rendered
BuildPromptDeferred(f) == [f EXCEPT !.pc = "prompted"]

\* prompt(input): the template is rendered ...
BuildPrompt(f) == [f EXCEPT !.pc = "prompted", !.prompt = RenderPrompt(f.input)]

\* ... and sent to the provider
CallProvider(f) == [f EXCEPT !.pc = "awaiting", !.llmCalls = @ + 1]

\* variant: a failed provider call is tried again
ReceiveReplyRetrying(f, r) ==
    IF r.type = "error"
    THEN [f EXCEPT !.pc = "prompted", !.reply = r]
    ELSE [f EXCEPT !.pc = "replied", !.reply = r]

\* the provider's reply arrives; a failed call rejects `await prompt(input)`
ReceiveReply(f, r) ==
    IF r.type = "error"
    THEN Failed([f EXCEPT !.reply = r], "provider", r.cause)
    ELSE [f EXCEPT !.pc = "replied", !.reply = r]

\* variant: an output without the response text is repaired into an answer
ValidateOutputRepairing(f) ==
    IF OutputSchemaOk(f.reply.output)
    THEN [f EXCEPT !.pc = "returned", !.result = f.reply.output[1].response]
    ELSE [f EXCEPT !.pc = "returned", !.result = Some(<<DISCLAIMER>>)]

\* variant: the disclaimer is put in front of an answer that lacks it
ValidateOutputPrefixing(f) ==
    IF OutputSchemaOk(f.reply.output)
    THEN [f EXCEPT !.pc = "returned",
                   !.result = IF StartsWith(f.reply.output[1].response[1], <<DISCLAIMER>>)
                              THEN f.reply.output[1].response
                              ELSE Some(<<DISCLAIMER>> \o f.reply.output[1].response[1])]
    ELSE Failed(f, "output", SchemaError)

\* variant: `output!` is returned without the output schema being applied
ValidateOutputUnchecked(f) ==
    [f EXCEPT !.pc = "returned",
              !.result = IF f.reply.output = None THEN None
                         ELSE f.reply.output[1].response]

\* variant: the output is kept in a place all invocations share
ValidateOutputShared(f) ==
    LET others == {g \in BagToSet(flows) :
                      g # f /\ g.reply.type = "output" /\ OutputSchemaOk(g.reply.output)}
        own == IF OutputSchemaOk(f.reply.output)
               THEN [f EXCEPT !.pc = "returned", !.result = f.reply.output[1].response]
               ELSE Failed(f, "output", SchemaError)
    IN IF others = {}
       THEN own
       ELSE [f EXCEPT !.pc = "returned",
                      !.result = (CHOOSE g \in others : TRUE).reply.output[1].response]

\* `return output!`, then defineFlow validates it against outputSchema
ValidateOutput(f) ==
    IF OutputSchemaOk(f.reply.output)
    THEN [f EXCEPT !.pc = "returned", !.result = f.reply.output[1].response]
    ELSE Failed(f, "output", SchemaError)

Settled(f) == f.pc \in {"returned", "failed"}

\* what a caller of the server action can pass
DirectInputs ==
    { [query |-> None, documentDataUri |-> None, documentName |-> None],
      [query |-> Some(<<>>), documentDataUri |-> None, documentName |-> None],
      [query |-> Some(<<"a">>), documentDataUri |-> None, documentName |-> None],
      [query |-> Some(<<"a">>), documentDataUri |-> Some(<<>>), documentName |-> Some(FileA.name)],
      [query |-> Some(<<"a">>), documentDataUri |-> Some(<<"not-a-data-uri">>), documentName |-> Some(FileA.name)],
      [query |-> Some(<<"a">>), documentDataUri |-> Some(DataUrl(FileA)), documentName |-> Some(FileA.name)] }

\* bags of in-flight work
One(x) == SetToBag({x})
Replace(bag, x, y) == (bag (-) One(x)) (+) One(y)

\* ------------------------------------------------------------ state
chatVars == <<chatMessages, currentUserQuery, isChatPending, chatError,
              selectedFile, documentDataUri, readers, docSent>>

summVars == <<file, fileName, summary, isPending, error, sreaders, scalls>>

vars == <<variant, chatVars, summVars, flows>>

InitPage ==
    /\ chatMessages = <<>>
    /\ currentUserQuery = <<>>
    /\ isChatPending = FALSE
    /\ chatError = None
    /\ selectedFile = None
    /\ documentDataUri = None
    /\ readers = EmptyBag
    /\ docSent = FALSE
    /\ file = None
    /\ fileName = <<>>
    /\ summary = None
    /\ isPending = FALSE
    /\ error = None
    /\ sreaders = EmptyBag
    /\ scalls = EmptyBag
    /\ flows = EmptyBag

\* ------------------------------------------------ flow steps (server)
FlowValidateInput ==
    \E f \in BagToSet(flows) :
        /\ f.pc = "invoked"
        /\ flows' = Replace(flows, f, ValidateInput(f))
        /\ UNCHANGED <<variant, chatVars, summVars>>

FlowBuildPrompt ==
    \E f \in BagToSet(flows) :
        /\ f.pc = "validated"
        /\ flows' = Replace(flows, f, BuildPrompt(f))
        /\ UNCHANGED <<variant, chatVars, summVars>>

FlowCallProvider ==
    \E f \in BagToSet(flows) :
        /\ f.pc = "prompted"
        /\ flows' = Replace(flows, f, CallProvider(f))
        /\ UNCHANGED <<variant, chatVars, summVars>>

ProviderReply ==
    \E f \in BagToSet(flows), r \in ProviderReplies :
        /\ f.pc = "awaiting"
        /\ flows' = Replace(flows, f, ReceiveReply(f, r))
        /\ UNCHANGED <<variant, chatVars, summVars>>

FlowValidateOutput ==
    \E f \in BagToSet(flows) :
        /\ f.pc = "replied"
        /\ flows' = Replace(flows, f, ValidateOutput(f))
        /\ UNCHANGED <<variant, chatVars, summVars>>

\* --------------------------------------------------------- chat page
\* JavaScript truthiness of a string | null
Truthy(v) == v # None /\ v[1] # <<>>

\* variant: the emptiness test without the trim
QueryIsBlankUntrimmed(q) == q = <<>>

\* if (!currentUserQuery.trim())
QueryIsBlank(q) == Trim(q) = <<>>

\* variant: the limit taken in bits
FileTooLargeWrongUnit(f) == f.size > MAX_FILE_SIZE_BYTES * 8

\* file.size > MAX_FILE_SIZE_BYTES
FileTooLarge(f) == f.size > MAX_FILE_SIZE_BYTES

\* crypto.randomUUID(): an id no message of the transcript has
NewId(msgs) == Len(msgs) + 1

NewMessage(msgs, role, content) ==
    [id |-> NewId(msgs), role |-> role, content |-> content]

\* variant: the new message replaces the last one
AppendMessageOverwriting(prevMessages, m) ==
    IF prevMessages = <<>> THEN <<m>>
    ELSE [prevMessages EXCEPT ![Len(prevMessages)] = m]

\* [...prevMessages, message]
AppendMessage(prevMessages, m) == Append(prevMessages, m)

\* variant: the earlier user messages are sent along with the question
BuildChatInputWithHistory(content, uri, sel, prevMessages) ==
    LET earlier == IF prevMessages = <<>> THEN <<>> ELSE prevMessages[1].content
    IN IF Truthy(uri) /\ sel # None
       THEN [query |-> Some(earlier \o content), documentDataUri |-> uri,
             documentName |-> Some(sel[1].name)]
       ELSE [query |-> Some(earlier \o content), documentDataUri |-> None,
             documentName |-> None]

\* the chatInput built inside the transition; prevMessages is in scope there
\* and is not used
BuildChatInput(content, uri, sel, prevMessages) ==
    IF Truthy(uri) /\ sel # None
    THEN [query |-> Some(content), documentDataUri |-> uri,
          documentName |-> Some(sel[1].name)]
    ELSE [query |-> Some(content), documentDataUri |-> None,
          documentName |-> None]

\* errorMessage || 'Unknown error'
ErrorText(m) == IF m = <<>> THEN <<"Unknown error">> ELSE m

ChatFlows == {f \in BagToSet(flows) : f.caller = "chat"}

\* onChange of the chat input (disabled while a chat call is pending)
SetCurrentUserQuery ==
    \E q \in Queries :
        /\ variant = "chat"
        /\ ~isChatPending
        /\ q # currentUserQuery
        /\ currentUserQuery' = q
        /\ UNCHANGED <<variant, chatMessages, isChatPending, chatError,
                       selectedFile, documentDataUri, readers, docSent,
                       summVars, flows>>

\* handleFileChange with a file above the limit
HandleFileChangeTooLarge ==
    \E f \in Files :
        /\ variant = "chat"
        /\ ~isChatPending
        /\ FileTooLarge(f)
        /\ selectedFile' = None
        /\ documentDataUri' = None
        /\ docSent' = FALSE
        /\ UNCHANGED <<variant, chatMessages, currentUserQuery, isChatPending,
                       chatError, readers, summVars, flows>>

\* handleFileChange with an acceptable file: a FileReader starts reading it
HandleFileChangeAccepted ==
    \E f \in Files :
        /\ variant = "chat"
        /\ ~isChatPending
        /\ ~FileTooLarge(f)
        /\ BagCardinality(readers) < MaxReaders
        /\ selectedFile' = Some(f)
        /\ readers' = readers (+) One(f)
        /\ UNCHANGED <<variant, chatMessages, currentUserQuery, isChatPending,
                       chatError, documentDataUri, docSent, summVars, flows>>

\* handleFileChange with no file in the event
HandleFileChangeNone ==
    /\ variant = "chat"
    /\ ~isChatPending
    /\ selectedFile' = None
    /\ documentDataUri' = None
    /\ docSent' = FALSE
    /\ <<selectedFile, documentDataUri>> # <<None, None>>
    /\ UNCHANGED <<variant, chatMessages, currentUserQuery, isChatPending,
                   chatError, readers, summVars, flows>>

\* reader.onloadend after a successful read
ReaderLoadEnd ==
    \E f \in BagToSet(readers) :
        /\ readers' = readers (-) One(f)
        /\ documentDataUri' = Some(DataUrl(f))
        /\ docSent' = FALSE
        /\ UNCHANGED <<variant, chatMessages, currentUserQuery, isChatPending,
                       chatError, selectedFile, summVars, flows>>

\* reader.onerror, then reader.onloadend with a null result
ReaderError ==
    \E f \in BagToSet(readers) :
        /\ readers' = readers (-) One(f)
        /\ selectedFile' = None
        /\ documentDataUri' = None
        /\ docSent' = FALSE
        /\ UNCHANGED <<variant, chatMessages, currentUserQuery, isChatPending,
                       chatError, summVars, flows>>

\* clearSelectedFile (its button shows while a file is selected and is
\* disabled while a chat call is pending)
ClearSelectedFile ==
    /\ variant = "chat"
    /\ ~isChatPending
    /\ selectedFile # None
    /\ selectedFile' = None
    /\ documentDataUri' = None
    /\ docSent' = FALSE
    /\ UNCHANGED <<variant, chatMessages, currentUserQuery, isChatPending,
                   chatError, readers, summVars, flows>>

\* handleChatSubmit, early return: nothing to ask
HandleChatSubmitRejected ==
    /\ variant = "chat"
    /\ ~isChatPending
    /\ QueryIsBlank(currentUserQuery)
    /\ chatError' = Some(<<"Please enter a question.">>)
    /\ UNCHANGED <<variant, chatMessages, currentUserQuery, isChatPending,
                   selectedFile, documentDataUri, readers, docSent,
                   summVars, flows>>

\* variant: the attachment is dropped once it has been sent
HandleChatSubmitClearing ==
    /\ variant = "chat"
    /\ ~isChatPending
    /\ ~QueryIsBlank(currentUserQuery)
    /\ Len(chatMessages) < 2 * MaxTurns
    /\ LET newUserMessage == NewMessage(chatMessages, "user", Trim(currentUserQuery))
           chatInput == BuildChatInput(newUserMessage.content, documentDataUri,
                                       selectedFile, chatMessages)
       IN /\ chatError' = None
          /\ chatMessages' = AppendMessage(chatMessages, newUserMessage)
          /\ currentUserQuery' = <<>>
          /\ isChatPending' = TRUE
          /\ flows' = flows (+) One(NewFlow("chat", chatInput,
                                            chatInput.documentDataUri # None /\ docSent))
          /\ docSent' = FALSE
    /\ selectedFile' = None
    /\ documentDataUri' = None
    /\ UNCHANGED <<variant, readers, summVars>>

\* variant: the pending flag drops as soon as the callback reaches its await
HandleChatSubmitNotPending ==
    /\ variant = "chat"
    /\ ~isChatPending
    /\ ~QueryIsBlank(currentUserQuery)
    /\ Len(chatMessages) < 2 * MaxTurns
    /\ LET newUserMessage == NewMessage(chatMessages, "user", Trim(currentUserQuery))
           chatInput == BuildChatInput(newUserMessage.content, documentDataUri,
                                       selectedFile, chatMessages)
       IN /\ chatError' = None
          /\ chatMessages' = AppendMessage(chatMessages, newUserMessage)
          /\ currentUserQuery' = <<>>
          /\ isChatPending' = FALSE
          /\ flows' = flows (+) One(NewFlow("chat", chatInput,
                                            chatInput.documentDataUri # None /\ docSent))
          /\ docSent' = (docSent \/ chatInput.documentDataUri # None)
    /\ UNCHANGED <<variant, selectedFile, documentDataUri, readers, summVars>>

\* handleChatSubmit: the user message is appended and legalChat is called.
\* The transition's callback runs at once, up to its await, so chatInput is
\* built from the state of this render; isChatPending stays true until the
\* awaited call has settled.
HandleChatSubmitAccepted ==
    /\ variant = "chat"
    /\ ~isChatPending
    /\ ~QueryIsBlank(currentUserQuery)
    /\ Len(chatMessages) < 2 * MaxTurns
    /\ LET newUserMessage == NewMessage(chatMessages, "user", Trim(currentUserQuery))
           chatInput == BuildChatInput(newUserMessage.content, documentDataUri,
                                       selectedFile, chatMessages)
       IN /\ chatError' = None
          /\ chatMessages' = AppendMessage(chatMessages, newUserMessage)
          /\ currentUserQuery' = <<>>
          /\ isChatPending' = TRUE
          /\ flows' = flows (+) One(NewFlow("chat", chatInput,
                                            chatInput.documentDataUri # None /\ docSent))
          /\ docSent' = (docSent \/ chatInput.documentDataUri # None)
    /\ UNCHANGED <<variant, selectedFile, documentDataUri, readers, summVars>>

\* variant: the reply is appended twice
ChatResolveDuplicating ==
    \E f \in ChatFlows :
        /\ f.pc = "returned"
        /\ LET once == AppendMessage(chatMessages,
                           NewMessage(chatMessages, "assistant", f.result[1]))
           IN chatMessages' = AppendMessage(once,
                                  NewMessage(once, "assistant", f.result[1]))
        /\ isChatPending' = FALSE
        /\ flows' = flows (-) One(f)
        /\ UNCHANGED <<variant, currentUserQuery, chatError, selectedFile,
                       documentDataUri, readers, docSent, summVars>>

\* `await legalChat(chatInput)` returns
ChatResolve ==
    \E f \in ChatFlows :
        /\ f.pc = "returned"
        /\ chatMessages' = AppendMessage(chatMessages,
                               NewMessage(chatMessages, "assistant", f.result[1]))
        /\ isChatPending' = FALSE
        /\ flows' = flows (-) One(f)
        /\ UNCHANGED <<variant, currentUserQuery, chatError, selectedFile,
                       documentDataUri, readers, docSent, summVars>>

\* variant: a failed call is answered with a made-up reply
ChatRejectFabricating ==
    \E f \in ChatFlows :
        /\ f.pc = "failed"
        /\ chatMessages' = AppendMessage(chatMessages,
               NewMessage(chatMessages, "assistant", <<DISCLAIMER, "answer">>))
        /\ isChatPending' = FALSE
        /\ flows' = flows (-) One(f)
        /\ UNCHANGED <<variant, currentUserQuery, chatError, selectedFile,
                       documentDataUri, readers, docSent, summVars>>

\* variant: a failed call sets chatError and leaves the transcript alone
ChatRejectSilent ==
    \E f \in ChatFlows :
        /\ f.pc = "failed"
        /\ chatError' = Some(<<"An error occurred: ">> \o ErrorText(f.error[1].cause))
        /\ isChatPending' = FALSE
        /\ flows' = flows (-) One(f)
        /\ UNCHANGED <<variant, chatMessages, currentUserQuery, selectedFile,
                       documentDataUri, readers, docSent, summVars>>

\* `await legalChat(chatInput)` throws
ChatReject ==
    \E f \in ChatFlows :
        /\ f.pc = "failed"
        /\ LET errorMessage == f.error[1].cause
           IN /\ chatError' = Some(<<"An error occurred: ">> \o ErrorText(errorMessage))
              /\ chatMessages' = AppendMessage(chatMessages,
                     NewMessage(chatMessages, "assistant",
                         <<"Sorry, I encountered an error: ">>
                         \o ErrorText(errorMessage)
                         \o <<". Please try again.">>))
        /\ isChatPending' = FALSE
        /\ flows' = flows (-) One(f)
        /\ UNCHANGED <<variant, currentUserQuery, selectedFile,
                       documentDataUri, readers, docSent, summVars>>

\* --------------------------------------------------- summarizer page
\* selectedFile.size > 5 * 1024 * 1024
SummFileTooLarge(f) == f.size > 5 * 1024 * 1024

\* summarizeDocument resolves with { summary }
SummaryOf(uri) == [summary |-> <<"summary of">> \o uri]

SummInFlight == BagCardinality(sreaders) + BagCardinality(scalls)

\* handleFileChange with a file above the limit
SummFileChangeTooLarge ==
    \E f \in Files :
        /\ variant = "summarizer"
        /\ SummFileTooLarge(f)
        /\ error' = Some(<<"File size exceeds 5MB. Please upload a smaller document.">>)
        /\ file' = None
        /\ fileName' = <<>>
        /\ UNCHANGED <<variant, chatVars, summary, isPending, sreaders, scalls, flows>>

\* handleFileChange with an acceptable file
SummFileChangeAccepted ==
    \E f \in Files :
        /\ variant = "summarizer"
        /\ ~SummFileTooLarge(f)
        /\ file' = Some(f)
        /\ fileName' = f.name
        /\ summary' = None
        /\ error' = None
        /\ <<file, summary, error>> # <<Some(f), None, None>>
        /\ UNCHANGED <<variant, chatVars, isPending, sreaders, scalls, flows>>

\* handleSubmit / handleSummarizeSubmit (the button is disabled while
\* isPending or without a file): a FileReader starts reading the file
SummHandleSubmit ==
    /\ variant = "summarizer"
    /\ ~isPending
    /\ file # None
    /\ SummInFlight < MaxInFlight
    /\ error' = None
    /\ isPending' = TRUE
    /\ sreaders' = sreaders (+) One(file[1])
    /\ UNCHANGED <<variant, chatVars, file, fileName, summary, scalls, flows>>

\* the transition's callback has returned: it awaits nothing
SummTransitionEnd ==
    /\ isPending
    /\ isPending' = FALSE
    /\ UNCHANGED <<variant, chatVars, file, fileName, summary, error,
                   sreaders, scalls, flows>>

\* reader.onload: summarizeDocument({ documentDataUri }) is called
SummReaderLoad ==
    \E f \in BagToSet(sreaders) :
        /\ sreaders' = sreaders (-) One(f)
        /\ scalls' = scalls (+) One([documentDataUri |-> DataUrl(f), pc |-> "awaiting"])
        /\ UNCHANGED <<variant, chatVars, file, fileName, summary, isPending,
                       error, flows>>

\* reader.onerror
SummReaderError ==
    \E f \in BagToSet(sreaders) :
        /\ sreaders' = sreaders (-) One(f)
        /\ error' = Some(<<"Failed to read the file. Please try again.">>)
        /\ UNCHANGED <<variant, chatVars, file, fileName, summary, isPending,
                       scalls, flows>>

\* summarizeDocument returns { summary }
SummarizeReturn ==
    \E c \in BagToSet(scalls) :
        /\ c.pc = "awaiting"
        /\ scalls' = Replace(scalls, c, [c EXCEPT !.pc = "returned"])
        /\ UNCHANGED <<variant, chatVars, file, fileName, summary, isPending,
                       error, sreaders, flows>>

\* summarizeDocument fails
SummarizeFail ==
    \E c \in BagToSet(scalls) :
        /\ c.pc = "awaiting"
        /\ scalls' = Replace(scalls, c, [c EXCEPT !.pc = "failed"])
        /\ UNCHANGED <<variant, chatVars, file, fileName, summary, isPending,
                       error, sreaders, flows>>

\* `await summarizeDocument(...)` returns inside onload
SummResolve ==
    \E c \in BagToSet(scalls) :
        /\ c.pc = "returned"
        /\ scalls' = scalls (-) One(c)
        /\ summary' = Some(SummaryOf(c.documentDataUri))
        /\ UNCHANGED <<variant, chatVars, file, fileName, isPending, error,
                       sreaders, flows>>

\* `await summarizeDocument(...)` throws inside onload: nothing catches it
SummReject ==
    \E c \in BagToSet(scalls) :
        /\ c.pc = "failed"
        /\ scalls' = scalls (-) One(c)
        /\ UNCHANGED <<variant, chatVars, file, fileName, summary, isPending,
                       error, sreaders, flows>>

\* ------------------------------- the server action called directly
InvokeLegalChat ==
    \E input \in DirectInputs :
        /\ variant = "server"
        /\ BagCardinality(flows) < MaxInvocations
        /\ flows' = flows (+) One(NewFlow("direct", input, FALSE))
        /\ UNCHANGED <<variant, chatVars, summVars>>

\* the promise settles and the caller drops it
DirectSettle ==
    \E f \in BagToSet(flows) :
        /\ f.caller = "direct"
        /\ Settled(f)
        /\ flows' = flows (-) One(f)
        /\ UNCHANGED <<variant, chatVars, summVars>>

InitFlow == variant = "server" /\ InitPage

NextFlow ==
    \/ InvokeLegalChat
    \/ FlowValidateInput
    \/ FlowBuildPrompt
    \/ FlowCallProvider
    \/ ProviderReply
    \/ FlowValidateOutput
    \/ DirectSettle

SpecFlow == InitFlow /\ [][NextFlow]_vars

\* ------------------------------------------------------------ pages
\* page.tsx holds three revisions of LegallyEasyPage.  "chat" is the chat
\* page with attachments (lines 38-333), "summarizer" the summarizer page
\* (lines 349-521).  The third revision (lines 561-919) has the summarizer's
\* handlers unchanged next to a chat tab whose handlers are the chat page's
\* with no attachment; the two tabs share no state.
Init == variant \in {"chat", "summarizer"} /\ InitPage

Next ==
    \/ SetCurrentUserQuery
    \/ HandleFileChangeTooLarge
    \/ HandleFileChangeAccepted
    \/ HandleFileChangeNone
    \/ ReaderLoadEnd
    \/ ReaderError
    \/ ClearSelectedFile
    \/ HandleChatSubmitRejected
    \/ HandleChatSubmitAccepted
    \/ FlowValidateInput
    \/ FlowBuildPrompt
    \/ FlowCallProvider
    \/ ProviderReply
    \/ FlowValidateOutput
    \/ ChatResolve
    \/ ChatReject
    \/ SummFileChangeTooLarge
    \/ SummFileChangeAccepted
    \/ SummHandleSubmit
    \/ SummTransitionEnd
    \/ SummReaderLoad
    \/ SummReaderError
    \/ SummarizeReturn
    \/ SummarizeFail
    \/ SummResolve
    \/ SummReject

Spec == Init /\ [][Next]_vars

\* ------------------------------------- pages and direct callers together
InitApp == variant \in {"chat", "summarizer", "server"} /\ InitPage

NextApp == Next \/ InvokeLegalChat \/ DirectSettle

SpecApp == InitApp /\ [][NextApp]_vars

\* ------------------------------------------------ pages, with progress
\* A call of legalChat that was issued keeps running: the server executes
\* the flow's steps one after the other, the request to the model provider
\* completes or fails, and the event loop runs the continuation of the
\* `await` once the promise has settled.  Nothing is assumed about the
\* user: no handler of the page is ever forced.
Fairness ==
    /\ WF_vars(FlowValidateInput)
    /\ WF_vars(FlowBuildPrompt)
    /\ WF_vars(FlowCallProvider)
    /\ WF_vars(ProviderReply)
    /\ WF_vars(FlowValidateOutput)
    /\ WF_vars(ChatResolve)
    /\ WF_vars(ChatReject)

SpecFair == Init /\ [][Next]_vars /\ Fairness

\* ----------------------------------------------------------- claims
AllFlows == BagToSet(flows)

\* the legalChat call a step of the chat page has just issued
NewChatFlows ==
    {f \in BagToSet(flows') : f.caller = "chat" /\ f.pc = "invoked"} \ BagToSet(flows)

HasDocument(f) == f.input.documentDataUri # None

\* the data URI encodes a file above the 5 MB limit
Oversized(u) == \E f \in Files : f.size > 5 * 1024 * 1024 /\ DataUrl(f) = u

\* C1: a chat submit whose query is empty or whitespace-only after trimming
\* issues no legalChat call, with or without an attached document; every
\* call the page issues carries the non-empty, trimmed query.
C1_BlankQueryNeverInvokes ==
    [][\A f \in NewChatFlows :
          /\ Trim(currentUserQuery) # <<>>
          /\ f.input.query = Some(Trim(currentUserQuery))
          /\ Trim(f.input.query[1]) = f.input.query[1]]_vars

\* a blank submit was refused while a document is attached
C1_Witness ==
    /\ chatError = Some(<<"Please enter a question.">>)
    /\ Trim(currentUserQuery) = <<>>
    /\ currentUserQuery # <<>>
    /\ selectedFile # None
    /\ documentDataUri # None
    /\ ChatFlows = {}

\* C2: a documentDataUri that is not data:<mimetype>;base64,<payload> makes
\* legalChat fail at input validation: no provider call, no result, no
\* upstream failure.
C2_MalformedUriRejected ==
    \A f \in AllFlows :
        (HasDocument(f) /\ ~IsDataUri(f.input.documentDataUri[1]))
        => /\ f.llmCalls = 0
           /\ f.pc # "returned"
           /\ (f.pc = "failed" => f.error[1].stage = "input")

\* C3: no legalChat or summarizeDocument call carries the content of a file
\* larger than 5*1024*1024 bytes.
C3_NoOversizedDocument ==
    /\ \A f \in ChatFlows : HasDocument(f) => ~Oversized(f.input.documentDataUri[1])
    /\ \A c \in BagToSet(scalls) : ~Oversized(c.documentDataUri)

\* a call carries the file that is exactly at the limit
C3_Witness ==
    \E f \in ChatFlows :
        /\ FileB.size = 5 * 1024 * 1024
        /\ f.input.documentDataUri = Some(DataUrl(FileB))

ValidQueryNoDocument(f) ==
    /\ f.input.query # None
    /\ f.input.query[1] # <<>>
    /\ f.input.documentDataUri = None

\* C4 as stated: for a valid non-empty query with no document a successful
\* legalChat returns the exact refusal sentence, or a text that starts with the
\* exact disclaimer; never a bare answer, never both sentences.
C4_RefusalOrDisclaimer ==
    \A f \in AllFlows :
        (f.pc = "returned" /\ ValidQueryNoDocument(f))
        => \/ f.result = Some(<<REFUSAL>>)
           \/ /\ f.result # None
              /\ StartsWith(f.result[1], <<DISCLAIMER>>)
              /\ ~Contains(f.result[1], REFUSAL)

\* C4 amended: for a valid non-empty query with no document a successful
\* legalChat returns the provider's response text unchanged; the prompt that
\* was sent states both fixed sentences, and the flow checks neither form.
C4_ProviderTextReturned ==
    \A f \in AllFlows :
        (f.pc = "returned" /\ ValidQueryNoDocument(f))
        => /\ f.reply.output = Some([response |-> f.result])
           /\ Contains(f.prompt, REFUSAL)
           /\ Contains(f.prompt, DISCLAIMER)

\* a bare answer was returned
C4_Witness ==
    \E f \in AllFlows :
        /\ f.pc = "returned"
        /\ ValidQueryNoDocument(f)
        /\ f.result = Some(<<"answer">>)

\* C5: an invocation of legalChat calls the provider at most once; after a
\* failed call or a rejected output it has still called it exactly once.
C5_AtMostOneProviderCall ==
    \A f \in AllFlows :
        /\ f.llmCalls <= 1
        /\ (f.pc \in {"awaiting", "replied", "returned"} => f.llmCalls = 1)
        /\ (f.pc = "failed" /\ f.error[1].stage # "input" => f.llmCalls = 1)
        /\ (f.pc = "failed" /\ f.error[1].stage = "input" => f.llmCalls = 0)

\* the provider call of an invocation has failed
C5_Witness ==
    \E f \in AllFlows :
        /\ f.pc = "failed"
        /\ f.reply.type = "error"
        /\ f.llmCalls = 1

HasResponseText(r) == r.output # None /\ r.output[1].response # None

\* C6: a failed provider call, or a provider output without the response
\* text, ends legalChat in a failure raised after the provider call (the
\* upstream kind) that carries the cause; no result is made up.
C6_UpstreamFailure ==
    \A f \in AllFlows :
        /\ f.reply.type = "error"
           => /\ f.pc = "failed"
              /\ f.error = Some([stage |-> "provider", cause |-> f.reply.cause])
              /\ f.result = None
        /\ (f.reply.type = "output" /\ ~HasResponseText(f.reply))
           => /\ f.pc \in {"replied", "failed"}
              /\ f.result = None
              /\ (f.pc = "failed"
                  => f.error = Some([stage |-> "output", cause |-> SchemaError]))

\* an output without the response field was rejected
C6_Witness ==
    \E f \in AllFlows :
        /\ f.pc = "failed"
        /\ f.reply.output = Some([response |-> None])

\* C7 as stated: whenever legalChat returns, the response is present and is a
\* non-empty string.
C7_ResponseNonEmpty ==
    \A f \in AllFlows :
        f.pc = "returned" => (f.result # None /\ f.result[1] # <<>>)

\* C7 amended: legalChat returns a result or fails, never both and never
\* neither; whenever it returns, the response is present and is a string,
\* which may be empty.
C7_ResultOrFailure ==
    \A f \in AllFlows :
        /\ f.pc = "returned" => (f.result # None /\ f.error = None)
        /\ f.pc = "failed" => (f.result = None /\ f.error # None)
        /\ ~Settled(f) => (f.result = None /\ f.error = None)

\* an empty response was returned
C7_Witness ==
    \E f \in AllFlows : f.pc = "returned" /\ f.result = Some(<<>>)

\* C8: the input of a legalChat call issued by the page is a function of the
\* current turn alone (the typed query, the attached document and its name),
\* whatever the transcript holds.
C8_InputFromCurrentTurnOnly ==
    [][\A f \in NewChatFlows :
          /\ f.input.query = Some(Trim(currentUserQuery))
          /\ IF Truthy(documentDataUri) /\ selectedFile # None
             THEN /\ f.input.documentDataUri = documentDataUri
                  /\ f.input.documentName = Some(selectedFile[1].name)
             ELSE /\ f.input.documentDataUri = None
                  /\ f.input.documentName = None]_vars

\* a call was issued while the transcript held an earlier exchange
C8_Witness ==
    /\ Len(chatMessages) = 3
    /\ \E f \in ChatFlows :
          /\ f.pc = "invoked"
          /\ f.input.query[1] # chatMessages[1].content

\* C9 as stated: the document data passed to one legalChat call is never
\* passed again to a later call.
C9_DocumentNeverResent == \A f \in ChatFlows : ~f.reused

\* C9 amended: the attachment outlives the call: a submit leaves selectedFile
\* and documentDataUri as they are, so a later call carries the same
\* document until the user removes or replaces it.
C9_AttachmentPersists ==
    [][\A f \in NewChatFlows :
          /\ selectedFile' = selectedFile
          /\ documentDataUri' = documentDataUri
          /\ HasDocument(f) <=> (Truthy(documentDataUri') /\ selectedFile' # None)]_vars

\* a stored document was sent a second time
C9_Witness ==
    \E f \in ChatFlows : HasDocument(f) /\ f.reused /\ Len(chatMessages) = 3

\* C10: every step leaves chatMessages unchanged or appends one message;
\* the earlier transcript is a prefix of the later one.
C10_TranscriptAppendOnly ==
    [][\/ chatMessages' = chatMessages
       \/ /\ Len(chatMessages') = Len(chatMessages) + 1
          /\ SubSeq(chatMessages', 1, Len(chatMessages)) = chatMessages]_vars

\* two completed exchanges, the second one failed
C10_Witness ==
    /\ Len(chatMessages) = 4
    /\ chatMessages[2].role = "assistant"
    /\ chatError # None
    /\ ~isChatPending


\* the legalChat calls of the chat page whose await ends in this step
EndedChatFlows == {f \in ChatFlows : f \notin BagToSet(flows')}

\* C11: when a legalChat call fails the chat page sets chatError and appends
\* exactly one assistant message, which states that an error occurred and is
\* no answer of the model.
C11_FailureShownNotAnswered ==
    [][\A f \in EndedChatFlows :
          f.pc = "failed"
          => /\ chatError' # None
             /\ StartsWith(chatError'[1], <<"An error occurred: ">>)
             /\ Len(chatMessages') = Len(chatMessages) + 1
             /\ SubSeq(chatMessages', 1, Len(chatMessages)) = chatMessages
             /\ chatMessages'[Len(chatMessages')].role = "assistant"
             /\ StartsWith(chatMessages'[Len(chatMessages')].content,
                           <<"Sorry, I encountered an error: ">>)
             /\ chatMessages'[Len(chatMessages')].content \notin ProviderTexts]_vars

\* the first call failed and its error message closes the transcript
C11_Witness ==
    /\ Len(chatMessages) = 2
    /\ chatMessages[2].content =
          <<"Sorry, I encountered an error: ", "provider unavailable", ". Please try again.">>
    /\ chatError = Some(<<"An error occurred: ", "provider unavailable">>)
    /\ ChatFlows = {}


\* C12: when a summarizeDocument call of the summarizer page fails, the page
\* shows the failure: error is set to a message and no summary is set for
\* that request.
C12_SummarizeFailureShown ==
    [][\A c \in BagToSet(scalls) :
          (c.pc = "failed" /\ scalls' = scalls (-) One(c))
          => (error' # None /\ summary' = summary)]_vars


ChatCallsInFlight == BagCardinality([f \in ChatFlows |-> CopiesIn(f, flows)])

\* C13: at any time at most one legalChat call issued by the chat page is in
\* flight; while it is, the page is pending, so the input and the Send
\* button are disabled and no further submit starts.
C13_OneChatCallInFlight ==
    /\ ChatCallsInFlight <= 1
    /\ (ChatCallsInFlight = 1 <=> isChatPending)
    /\ (isChatPending => ~ENABLED HandleChatSubmitAccepted)

\* the second call is in flight, the first one has settled
C13_Witness ==
    /\ ChatCallsInFlight = 1
    /\ Len(chatMessages) = 3
    /\ chatMessages[2].role = "assistant"
    /\ isChatPending


\* C14: while a summarizeDocument call of the summarizer page is in flight
\* the page's pending flag is true.
C14_PendingWhileSummarizing ==
    (\E c \in BagToSet(scalls) : c.pc = "awaiting") => isPending


OutputValidated(f) ==
    \/ f.pc = "returned"
    \/ f.pc = "failed" /\ f.error[1].stage = "output"

\* C15: within one invocation of legalChat the prompt is built before the
\* provider is called, and the provider's call is complete before the output
\* is validated; the output is never validated without a completed call.
C15_StepsInOrder ==
    \A f \in AllFlows :
        /\ f.llmCalls > 0 => f.prompt # <<>>
        /\ f.reply.type # "none" => f.llmCalls > 0
        /\ OutputValidated(f) => (f.reply.type = "output" /\ f.llmCalls > 0)
        /\ f.pc \in {"invoked", "validated"} => (f.prompt = <<>> /\ f.llmCalls = 0)

\* an invocation went through all three steps and returned
C15_Witness ==
    \E f \in AllFlows :
        /\ f.pc = "returned"
        /\ f.prompt # <<>>
        /\ f.llmCalls = 1
        /\ f.reply.type = "output"
        /\ f.result = Some(<<DISCLAIMER, "answer">>)


\* what one invocation alone makes of its input and of the reply to its call
SoloOutcome(input, reply) ==
    IF input.query = None
    THEN [pc |-> "failed", result |-> None,
          error |-> Some([stage |-> "input", cause |-> SchemaError])]
    ELSE IF reply.type = "error"
    THEN [pc |-> "failed", result |-> None,
          error |-> Some([stage |-> "provider", cause |-> reply.cause])]
    ELSE IF HasResponseText(reply)
    THEN [pc |-> "returned", result |-> reply.output[1].response, error |-> None]
    ELSE [pc |-> "failed", result |-> None,
          error |-> Some([stage |-> "output", cause |-> SchemaError])]

\* C16: under every interleaving of concurrent invocations of legalChat, the
\* outcome of each is the one it has when it runs alone: it is determined by
\* its own input and the provider's reply to its own call.
C16_InvocationsIndependent ==
    \A f \in AllFlows :
        Settled(f)
        => /\ [pc |-> f.pc, result |-> f.result, error |-> f.error]
                = SoloOutcome(f.input, f.reply)
           /\ f.llmCalls = (IF f.input.query = None THEN 0 ELSE 1)

\* two invocations ran side by side and ended differently
C16_Witness ==
    \E f, g \in AllFlows :
        /\ f.pc = "returned"
        /\ g.pc = "failed"
        /\ f.result = Some(<<REFUSAL>>)
        /\ g.error[1].stage = "provider"


HasSubSeq(s, t) ==
    \E i \in 1..(Len(s) - Len(t) + 1) : SubSeq(s, i, i + Len(t) - 1) = t

\* the document block of the prompt for a name and a data URI
DocumentBlock(name, uri) ==
    <<"The user has provided the following document named '">> \o name
    \o <<"' for reference.", "Document Content:", "{{media url=">> \o uri \o <<"}}">>

HasDocumentBlock(p) == Contains(p, "Document Content:")

PromptBuilt(f) == f.prompt # <<>>

BothOrNeither(f) == (f.input.documentDataUri = None) <=> (f.input.documentName = None)

C18_NameMatchesContent ==
    \A f \in ChatFlows :
        HasDocument(f)
        => \E d \in Files :
              /\ f.input.documentDataUri = Some(DataUrl(d))
              /\ f.input.documentName = Some(d.name)

\* C19: in every reachable state of the chat page a stored documentDataUri
\* comes with a selected file, also when a FileReader started earlier
\* completes after the file was cleared or rejected.
C19_UriImpliesSelectedFile == documentDataUri # None => selectedFile # None

\* C20: whenever the summarizer page shows a summary while a file is
\* selected, it is the summary of that file, never the result of a call
\* started for a file selected before.
C20_SummaryOfSelectedFile ==
    (summary # None /\ file # None)
    => summary = Some(SummaryOf(DataUrl(file[1])))


\* a step that appends a user message or issues a legalChat call from the page
SubmitStep ==
    \/ NewChatFlows # {}
    \/ /\ Len(chatMessages') > Len(chatMessages)
       /\ chatMessages'[Len(chatMessages')].role = "user"

\* exactly one message of the given role is appended in this step
AppendsOne(role) ==
    /\ Len(chatMessages') = Len(chatMessages) + 1
    /\ SubSeq(chatMessages', 1, Len(chatMessages)) = chatMessages
    /\ chatMessages'[Len(chatMessages')].role = role

\* C21: every accepted chat submit appends exactly one user message and
\* issues exactly one legalChat call; when that call settles, with a result
\* or with a failure, exactly one assistant message is appended for it; and
\* as long as issued calls keep running, every user message is eventually
\* followed by an assistant message.
C21_EveryQuestionAnswered ==
    /\ [][SubmitStep
          => /\ AppendsOne("user")
             /\ ChatCallsInFlight' = ChatCallsInFlight + 1
             /\ \A f \in NewChatFlows :
                   f.input.query = Some(chatMessages'[Len(chatMessages')].content)]_vars
    /\ [][\A f \in EndedChatFlows :
             Settled(f)
             => /\ AppendsOne("assistant")
                /\ ChatCallsInFlight' = ChatCallsInFlight - 1]_vars
    /\ \A i \in 1..(2 * MaxTurns) :
          (Len(chatMessages) >= i /\ chatMessages[i].role = "user")
          ~> (Len(chatMessages) > i /\ chatMessages[i + 1].role = "assistant")

\* two questions were asked; the first call failed, the second returned, and
\* each question has its assistant message
C21_Witness ==
    /\ Len(chatMessages) = 4
    /\ chatMessages[1].role = "user"
    /\ StartsWith(chatMessages[2].content, <<"Sorry, I encountered an error: ">>)
    /\ chatMessages[3].role = "user"
    /\ chatMessages[4].role = "assistant"
    /\ chatMessages[4].content \in ProviderTexts
    /\ ChatFlows = {}


\* the role the message at position i of an alternating transcript has
RoleAt(i) == IF i % 2 = 1 THEN "user" ELSE "assistant"

\* the message a settled call f of the page is answered with
IsAnswerOf(m, f) ==
    /\ m.role = "assistant"
    /\ IF f.pc = "returned"
       THEN m.content = f.result[1]
       ELSE m.content = <<"Sorry, I encountered an error: ">>
                        \o ErrorText(f.error[1].cause)
                        \o <<". Please try again.">>

\* C22: in every reachable state of the chat page the transcript alternates
\* user, assistant, user, assistant, ...: no two messages of the same role
\* are adjacent, and each assistant message is appended right after the user
\* message whose legalChat call it answers.
C22_RolesAlternate ==
    /\ [](\A i \in DOMAIN chatMessages : chatMessages[i].role = RoleAt(i))
    /\ [][\A f \in EndedChatFlows :
             Settled(f)
             => /\ chatMessages # <<>>
                /\ chatMessages[Len(chatMessages)].role = "user"
                /\ f.input.query = Some(chatMessages[Len(chatMessages)].content)
                /\ Len(chatMessages') = Len(chatMessages) + 1
                /\ IsAnswerOf(chatMessages'[Len(chatMessages')], f)]_vars

\* two turns: the first question got the provider's text, the second one the
\* error message of its failed call
C22_Witness ==
    /\ Len(chatMessages) = 4
    /\ chatMessages[1].role = "user"
    /\ chatMessages[2].role = "assistant"
    /\ chatMessages[2].content \in ProviderTexts
    /\ chatMessages[3].role = "user"
    /\ chatMessages[4].role = "assistant"
    /\ StartsWith(chatMessages[4].content, <<"Sorry, I encountered an error: ">>)

====
